---- MODULE Spec2Model ----
(***************************************************************************)
(* Model of nifty500_glb_scanner.py: the retry wrapper download_hist, the  *)
(* evaluator compute_for_ticker and the scan loop of main.                 *)
(*                                                                         *)
(* Prices, volumes and dates are small positive integers.  A pandas NaN    *)
(* (and a row label missing after reindex) is the value NaN; Python's None *)
(* in a record is the value None.  The relative-strength ratio Close/bench *)
(* is kept as an exact fraction and compared by cross-multiplication.      *)
(* A ticker symbol is the sequence of its character codes, compared as     *)
(* Python compares strings.                                                *)
(***************************************************************************)
EXTENDS Integers, Sequences, FiniteSets, TLC

\* ------------------------------------------------------------------ bounds
\* The window lengths of the source (1260, 756, 20 and 60 bars) scaled down.
BARS_GLB == 2
BARS_RS == 1
VOL_SMA_LEN == 2
MIN_TRADING_DAYS_REQUIRED == 2
\* The batch size of the source (60) scaled down, and the longest ticker list.
DOWNLOAD_BATCH == 2
MaxTickers == 3

\* --------------------------------------------------------------- constants
MAX_RETRIES == 3
VOL_MULT == 1

NaN == 0 - 1
None == 0 - 2

\* max(BARS_GLB, BARS_RS, VOL_SMA_LEN, MIN_TRADING_DAYS_REQUIRED)
MaxOf(S) == CHOOSE x \in S : \A y \in S : y <= x
MinLength == MaxOf({BARS_GLB, BARS_RS, VOL_SMA_LEN, MIN_TRADING_DAYS_REQUIRED})

\* One bar more than the length gate and than the longest window, so that a
\* window slides and an old bar drops out of it.
MaxBars == MinLength + 1

\* ------------------------------------------------------------ input values
Prices == 1..2
Volumes == 1..2
Dates == 1..MaxBars

Columns == {"High", "Close", "Adj Close", "Volume"}

\* A row of a frame: the value of every column at one date (NaN where the
\* column is absent or the value is missing).
Bar(d, h, c, a, v) == [date |-> d, High |-> h, Close |-> c, AdjClose |-> a, Volume |-> v]

\* A frame: None (present = FALSE) or a set of columns and rows in index order.
NoFrame == [present |-> FALSE, cols |-> {}, bars |-> << >>]
Frame(cols, bars) == [present |-> TRUE, cols |-> cols, bars |-> bars]

Len0(df) == IF df.present THEN Len(df.bars) ELSE 0

\* ------------------------------------------------------- pandas operations
IsNaN(x) == x = NaN

\* Series > Series element: any comparison with NaN is False.
Gt(a, b) == ~IsNaN(a) /\ ~IsNaN(b) /\ a > b

\* The rows a trailing window of w rows ending at row t covers.
Window(t, w) == {i \in 1..t : i > t - w}

\* Series.rolling(window=w, min_periods=1).max()
RollingMax(vals, w) ==
    [t \in 1..Len(vals) |->
        LET obs == {vals[i] : i \in Window(t, w)} \ {NaN}
        IN  IF obs = {} THEN NaN ELSE MaxOf(obs)]

\* Series.shift(1)
Shift(s) == [t \in 1..Len(s) |-> IF t = 1 THEN NaN ELSE s[t - 1]]

\* A ratio n/d; NaN is the ratio whose numerator is NaN.
Frac(n, d) == [n |-> n, d |-> d]
FracNaN == Frac(NaN, 1)
FracGt(x, y) == ~IsNaN(x.n) /\ ~IsNaN(y.n) /\ x.n * y.d > y.n * x.d

\* Series / Series, element by element.
Divide(num, den) ==
    [t \in 1..Len(num) |->
        IF IsNaN(num[t]) \/ IsNaN(den[t]) THEN FracNaN ELSE Frac(num[t], den[t])]

RollingMaxFrac(vals, w) ==
    [t \in 1..Len(vals) |->
        LET obs == {vals[i] : i \in Window(t, w)} \ {FracNaN}
        IN  IF obs = {} THEN FracNaN
            ELSE CHOOSE x \in obs : \A y \in obs : ~FracGt(y, x)]

ShiftFrac(s) == [t \in 1..Len(s) |-> IF t = 1 THEN FracNaN ELSE s[t - 1]]

RECURSIVE SumOver(_, _)
SumOver(vals, S) ==
    IF S = {} THEN 0
    ELSE LET i == CHOOSE j \in S : TRUE
         IN  vals[i] + SumOver(vals, S \ {i})

\* volume[last] > VOL_MULT * rolling(window=w, min_periods=1).mean()[last],
\* the mean n/k compared without division.
AboveRollingMean(vals, w) ==
    LET last == Len(vals)
        obs  == {i \in Window(last, w) : ~IsNaN(vals[i])}
    IN  /\ last > 0
        /\ ~IsNaN(vals[last])
        /\ obs # {}
        /\ vals[last] * Cardinality(obs) > VOL_MULT * SumOver(vals, obs)

\* DataFrame.sort_index(): the rows in ascending date order (stable).
SortIndex(bars) ==
    LET n == Len(bars)
        rank(i) == 1 + Cardinality({j \in 1..n :
                        \/ bars[j].date < bars[i].date
                        \/ (bars[j].date = bars[i].date /\ j < i)})
    IN  [k \in 1..n |-> bars[CHOOSE i \in 1..n : rank(i) = k]]

\* DataFrame.dropna(how="all"): drop the rows with no value in any column.
RowAllNaN(b) == IsNaN(b.High) /\ IsNaN(b.Close) /\ IsNaN(b.AdjClose) /\ IsNaN(b.Volume)
DropAllNaN(bars) == SelectSeq(bars, LAMBDA b : ~RowAllNaN(b))

\* DataFrame.dropna(subset=["Close"])
HasClose(b) == ~IsNaN(b.Close)
DropNoClose(bars) == SelectSeq(bars, HasClose)

\* A benchmark series is a function from dates to a value or NaN.
\* Series.reindex(index): the series' value at each date of the rows.
Reindex(series, bars) == [t \in 1..Len(bars) |-> series[bars[t].date]]

RECURSIVE FFill(_)
FFill(s) ==
    IF Len(s) <= 1 THEN s
    ELSE LET head == FFill(SubSeq(s, 1, Len(s) - 1))
             x    == s[Len(s)]
         IN  Append(head, IF IsNaN(x) THEN head[Len(head)] ELSE x)

RECURSIVE BFill(_)
BFill(s) ==
    IF Len(s) <= 1 THEN s
    ELSE LET tail == BFill(Tail(s))
         IN  <<IF IsNaN(s[1]) THEN tail[1] ELSE s[1]>> \o tail

AllNaN(s) == \A t \in 1..Len(s) : IsNaN(s[t])

\* bench_close.reindex(df_sym.index).ffill().bfill(), as a series over dates
\* again (NaN at the dates the frame has no row for).
AlignTo(series, bars) ==
    LET filled == BFill(FFill(Reindex(series, bars)))
    IN  [d \in Dates |->
            IF \E t \in 1..Len(bars) : bars[t].date = d
            THEN filled[CHOOSE t \in 1..Len(bars) : bars[t].date = d]
            ELSE NaN]

\* ------------------------------------------------------ compute_for_ticker
SignalRecord(sym, date, close, glb, rs_break, vol_ok, notes) ==
    [ticker |-> sym, date |-> date, close |-> close, glb |-> glb,
     rs_break |-> rs_break, vol_ok |-> vol_ok,
     signal |-> (glb /\ rs_break /\ vol_ok), notes |-> notes]

\* The dict `out` as compute_for_ticker initialises it, with its notes set.
ShortCircuit(sym, notes) == SignalRecord(sym, None, None, FALSE, FALSE, FALSE, notes)

\* What a call gives back: the dict it returns, or the exception it raises.
Returned(rec) == [raised |-> FALSE, rec |-> rec, error |-> ""]
Raised(sym, msg) == [raised |-> TRUE, rec |-> ShortCircuit(sym, ""), error |-> msg]

\* Mutant: the length gate lets a series one bar too short through.
InsufficientDataOffByOne(df_sym) == ~df_sym.present \/ Len(df_sym.bars) < MinLength - 1

\* df_sym is None or len(df_sym) < max(BARS_GLB, BARS_RS, VOL_SMA_LEN, MIN_...)
InsufficientData(df_sym) == ~df_sym.present \/ Len(df_sym.bars) < MinLength

\* Mutant: a tie with the prior rolling high counts as a new high.
IsNewHighOrTie(hh_last, hh_prev_last) ==
    ~IsNaN(hh_last) /\ ~IsNaN(hh_prev_last) /\ hh_last >= hh_prev_last

\* hh.iloc[-1] > hh_prev.iloc[-1]
IsNewHigh(hh_last, hh_prev_last) == Gt(hh_last, hh_prev_last)

\* df_sym["Close"].iloc[-1] > hh_prev.iloc[-1]
CloseAbovePrev(close_last, hh_prev_last) == Gt(close_last, hh_prev_last)

Column(bars, name) ==
    [t \in 1..Len(bars) |->
        CASE name = "High" -> bars[t].High
          [] name = "Close" -> bars[t].Close
          [] name = "Volume" -> bars[t].Volume
          [] OTHER -> bars[t].AdjClose]

ComputeForTicker(sym, df_sym, bench_close) ==
    IF InsufficientData(df_sym) THEN Returned(ShortCircuit(sym, "insufficient_data"))
    ELSE IF "Close" \notin df_sym.cols THEN Raised(sym, "KeyError: Close")
    ELSE
    LET bars == DropNoClose(SortIndex(df_sym.bars))
        last == Len(bars)
    IN  IF last = 0 THEN Returned(ShortCircuit(sym, "no_close_data"))
        ELSE
        LET bench_aligned == BFill(FFill(Reindex(bench_close, bars)))
        IN  IF AllNaN(bench_aligned) THEN Returned(ShortCircuit(sym, "bench_not_aligned"))
            ELSE IF "High" \notin df_sym.cols THEN Raised(sym, "KeyError: High")
            ELSE
            LET hh           == RollingMax(Column(bars, "High"), BARS_GLB)
                hh_prev      == Shift(hh)
                close        == Column(bars, "Close")
                glb          == IsNewHigh(hh[last], hh_prev[last])
                                /\ CloseAbovePrev(close[last], hh_prev[last])
                rs           == Divide(close, bench_aligned)
                rs_high      == RollingMaxFrac(rs, BARS_RS)
                rs_prev_high == ShiftFrac(rs_high)
                rs_break     == FracGt(rs[last], rs_prev_high[last])
                vol_ok       == /\ "Volume" \in df_sym.cols
                                /\ AboveRollingMean(Column(bars, "Volume"), VOL_SMA_LEN)
            IN  Returned(SignalRecord(sym, bars[last].date, close[last],
                                      glb, rs_break, vol_ok, ""))

\* --------------------------------------------- main: the body of `for sym`
\* df_batch[sym].dropna(how="all"), or None when the batch frame has no sym.
ExtractSym(raw) ==
    IF raw.present THEN Frame(raw.cols, DropAllNaN(raw.bars)) ELSE NoFrame

\* Mutant: only a missing frame is caught, an empty one is evaluated.
NoDataOnlyNone(df_sym) == ~df_sym.present

\* df_sym is None or df_sym.empty
NoData(df_sym) == ~df_sym.present \/ Len(df_sym.bars) = 0

\* if "Close" not in df_sym.columns and "Adj Close" in df_sym.columns:
\*     df_sym["Close"] = df_sym["Adj Close"]
CloseFallback(df_sym) ==
    IF "Close" \notin df_sym.cols /\ "Adj Close" \in df_sym.cols
    THEN Frame(df_sym.cols \cup {"Close"},
               [t \in 1..Len(df_sym.bars) |->
                    [df_sym.bars[t] EXCEPT !.Close = df_sym.bars[t].AdjClose]])
    ELSE df_sym

\* What the loop body appends for sym: a SignalRecord to results, or an
\* ErrorRecord to errors when the evaluation raises.
ResultOf(rec) == [kind |-> "result", rec |-> rec, error |-> ""]
ErrorOf(sym, msg) == [kind |-> "error", rec |-> ShortCircuit(sym, ""), error |-> msg]

Outcome(sym, raw, bench_close) ==
    LET df_sym == ExtractSym(raw)
    IN  IF NoData(df_sym) THEN ResultOf(ShortCircuit(sym, "no_data"))
        ELSE
        LET df            == CloseFallback(df_sym)
            bench_aligned == AlignTo(bench_close, df.bars)
            res           == ComputeForTicker(sym, df, bench_aligned)
        IN  IF res.raised THEN ErrorOf(sym, res.error) ELSE ResultOf(res.rec)

\* ------------------------------------------------- inputs of the evaluator
\* The rows a provider can return at one date: values in every column, a
\* missing Close, or a row with no value at all.
BarsAt(d) ==
    {Bar(d, h, c, c, v) : h \in Prices, c \in Prices \cup {NaN}, v \in Volumes}
        \cup {Bar(d, NaN, NaN, NaN, NaN)}

\* The rows of a frame are in date order, one per date 1..n.
BarSeqs(n) == {s \in [1..n -> UNION {BarsAt(d) : d \in Dates}] : \A t \in 1..n : s[t].date = t}

\* A frame that lacks a column has NaN in it.
Blank(b, cols) ==
    Bar(b.date,
        IF "High" \in cols THEN b.High ELSE NaN,
        IF "Close" \in cols THEN b.Close ELSE NaN,
        IF "Adj Close" \in cols THEN b.AdjClose ELSE NaN,
        IF "Volume" \in cols THEN b.Volume ELSE NaN)

ColumnSets ==
    {Columns, Columns \ {"Close"}, Columns \ {"Close", "Adj Close"},
     Columns \ {"Volume"}, Columns \ {"High"}}

EvalFrames ==
    {NoFrame} \cup
    {Frame(cols, [t \in 1..Len(s) |-> Blank(s[t], cols)]) :
        cols \in ColumnSets, s \in UNION {BarSeqs(n) : n \in 0..MaxBars}}

\* Benchmark series: absent everywhere, flat, falling after a leading gap,
\* and rising around a gap.
BenchChoices ==
    {[d \in Dates |-> NaN],
     [d \in Dates |-> 1],
     [d \in Dates |-> IF d = 1 THEN NaN ELSE IF d = MaxBars THEN 1 ELSE 2],
     [d \in Dates |-> IF d = 1 THEN 1 ELSE IF d = MaxBars THEN 2 ELSE NaN]}

Sym == <<2>>

\* -------------------------------------------------- inputs of a scan run
\* The symbols "B" and "AB", as character codes.
Symbols == {<<2>>, <<1, 2>>}

\* load_tickers keeps the lines in file order, duplicates included.
TickerLists == UNION {[1..n -> Symbols] : n \in 0..MaxTickers}

FlatBar(d) == Bar(d, 1, 1, 1, 1)

\* The frames a batch download can hold for one symbol: none, only empty
\* rows, no Close value, no Close column at all, a flat history, and a
\* history whose last bar breaks out on high volume.
ScanFrames ==
    {NoFrame,
     Frame(Columns, [t \in 1..MaxBars |-> Bar(t, NaN, NaN, NaN, NaN)]),
     Frame(Columns, [t \in 1..MaxBars |-> Bar(t, 1, NaN, NaN, 1)]),
     Frame({"High", "Volume"}, [t \in 1..MaxBars |-> Bar(t, 1, NaN, NaN, 1)]),
     Frame(Columns, [t \in 1..MaxBars |-> FlatBar(t)]),
     Frame(Columns, [t \in 1..MaxBars |-> IF t = MaxBars THEN Bar(t, 2, 2, 2, 2) ELSE FlatBar(t)])}

\* The benchmark series a run can fetch: no usable value, or a flat one.
ScanBench == {[d \in Dates |-> NaN], [d \in Dates |-> 1]}

\* ------------------------------------------------------------------ state
VARIABLES
    pc,           \* where main is: "bench_dl", "batch_dl", "tickers", "output",
                  \* "done", "aborted" (uncaught RuntimeError), "crashed"
    tickers,      \* the list load_tickers returned
    webhook_url,  \* whether WEBHOOK_URL is set
    bench_close,  \* the benchmark's Close series
    dstatus,      \* the download_hist call in progress or just over: "running",
                  \* "returned" or "raised"; "none" before the first call and
                  \* once the loop body works on the frame a call returned
    dlog,         \* the outcome of each attempt of that call: "F" or "S"
    bi,           \* the number of the current batch (enumerate(..., start=1))
    si,           \* how many symbols of the current batch the loop has handled
    df_batch,     \* the frames of the current batch, as far as the loop has read
    results,      \* the list `results`
    errors,       \* the list `errors`
    written,      \* the output files written
    csv,          \* the rows of OUTPUT_CSV
    jsonl,        \* the lines of OUTPUT_JSONL
    posts,        \* the webhook posts made, each with its outcome
    failed,       \* the batches whose download raised
    df_in, bench_in, via, out   \* the evaluator run on its own

scan_vars ==
    <<pc, tickers, webhook_url, bench_close, dstatus, dlog, bi, si, df_batch,
      results, errors, written, csv, jsonl, posts, failed>>
evars == <<df_in, bench_in, via, out>>
vars == <<scan_vars, evars>>

\* Mutant: the last, shorter chunk is lost.
chunk_listDropsTail(items, chunk_size) ==
    [c \in 1..(Len(items) \div chunk_size) |->
        SubSeq(items, (c - 1) * chunk_size + 1, c * chunk_size)]

\* chunk_list(items, chunk_size)
chunk_list(items, chunk_size) ==
    LET n == Len(items)
        k == (n + chunk_size - 1) \div chunk_size
    IN  [c \in 1..k |->
            SubSeq(items, (c - 1) * chunk_size + 1,
                   IF c * chunk_size < n THEN c * chunk_size ELSE n)]

batches == chunk_list(tickers, DOWNLOAD_BATCH)
batch == batches[bi]

ErrorRecord(t, msg) == [ticker |-> t, error |-> msg]

\* ---------------------------------------------------------- download_hist
\* Mutant: the loop runs one attempt too many.
CanAttemptOffByOne(n) == n <= MAX_RETRIES

\* for attempt in range(MAX_RETRIES): whether attempt number n (from 0) runs.
CanAttempt(n) == n < MAX_RETRIES

\* The attempts the call in progress has made; a new call starts with none.
Attempts == IF dstatus = "running" THEN dlog ELSE << >>

InDownload == pc \in {"bench_dl", "batch_dl"}

\* yf.download raises: the exception is caught, logged and slept on.
DownloadFail ==
    /\ InDownload
    /\ CanAttempt(Len(Attempts))
    /\ dstatus' = "running"
    /\ dlog' = Append(Attempts, "F")
    /\ UNCHANGED <<pc, tickers, webhook_url, bench_close, bi, si, df_batch,
                   results, errors, written, csv, jsonl, posts, failed, evars>>

\* The batch after this one, or the output step after the last one.
NextBatch ==
    IF bi < Len(batches)
    THEN pc' = "batch_dl" /\ bi' = bi + 1
    ELSE pc' = "output" /\ bi' = bi

\* The benchmark download returns; main takes its Close series, empties
\* results and errors and chunks the tickers.
BenchFetchOk ==
    /\ pc = "bench_dl"
    /\ CanAttempt(Len(Attempts))
    /\ dstatus' = "returned"
    /\ dlog' = Append(Attempts, "S")
    /\ bench_close' \in ScanBench
    /\ results' = << >>
    /\ errors' = << >>
    /\ IF Len(batches) > 0
       THEN pc' = "batch_dl" /\ bi' = 1
       ELSE pc' = "output" /\ bi' = 0
    /\ UNCHANGED <<tickers, webhook_url, si, df_batch, written, csv, jsonl,
                   posts, failed, evars>>

\* Mutant: a failed benchmark download is caught and the scan goes on.
BenchFetchExhaustedSwallowed ==
    /\ pc = "bench_dl"
    /\ dstatus = "running"
    /\ Len(dlog) >= MAX_RETRIES
    /\ dstatus' = "raised"
    /\ dlog' = dlog
    /\ IF Len(chunk_list(tickers, DOWNLOAD_BATCH)) > 0
       THEN pc' = "batch_dl" /\ bi' = 1
       ELSE pc' = "output" /\ bi' = 0
    /\ UNCHANGED <<tickers, webhook_url, bench_close, si, df_batch, results,
                   errors, written, csv, jsonl, posts, failed, df_in, bench_in,
                   via, out>>

\* The benchmark download runs out of attempts: download_hist raises and
\* nothing in main catches it.
BenchFetchExhausted ==
    /\ pc = "bench_dl"
    /\ ~CanAttempt(Len(Attempts))
    /\ dstatus' = "raised"
    /\ dlog' = Attempts
    /\ pc' = "aborted"
    /\ UNCHANGED <<tickers, webhook_url, bench_close, bi, si, df_batch,
                   results, errors, written, csv, jsonl, posts, failed, evars>>

\* A batch download returns its frame.
BatchFetchOk ==
    /\ pc = "batch_dl"
    /\ CanAttempt(Len(Attempts))
    /\ dstatus' = "returned"
    /\ dlog' = Append(Attempts, "S")
    /\ df_batch' = << >>
    /\ si' = 0
    /\ pc' = "tickers"
    /\ UNCHANGED <<tickers, webhook_url, bench_close, bi, results, errors,
                   written, csv, jsonl, posts, failed, evars>>

\* Mutant: a failed batch gets a single ErrorRecord, for its first ticker.
BatchFetchExhaustedOneError ==
    /\ pc = "batch_dl"
    /\ ~CanAttempt(Len(Attempts))
    /\ dstatus' = "raised"
    /\ dlog' = Attempts
    /\ errors' = Append(errors, ErrorRecord(batch[1], "download failed"))
    /\ failed' = failed \cup {bi}
    /\ NextBatch
    /\ UNCHANGED <<tickers, webhook_url, bench_close, si, df_batch, results,
                   written, csv, jsonl, posts, evars>>

\* A batch download runs out of attempts: main catches the exception, appends
\* an ErrorRecord for each ticker of the batch, sleeps and continues.
BatchFetchExhausted ==
    /\ pc = "batch_dl"
    /\ ~CanAttempt(Len(Attempts))
    /\ dstatus' = "raised"
    /\ dlog' = Attempts
    /\ errors' = errors \o [k \in 1..Len(batch) |-> ErrorRecord(batch[k], "download failed")]
    /\ failed' = failed \cup {bi}
    /\ NextBatch
    /\ UNCHANGED <<tickers, webhook_url, bench_close, si, df_batch, results,
                   written, csv, jsonl, posts, evars>>

\* ------------------------------------------------ main: one pass of the loop
\* if WEBHOOK_URL and res["signal"]
WebhookDue(o) == webhook_url /\ o.kind = "result" /\ o.rec.signal

\* One symbol of the batch: its frame is read from the batch frame and
\* evaluated, its record appended, the webhook posted for a signal (a failed
\* post is logged and dropped).
ProcessTicker ==
    /\ pc = "tickers"
    /\ si < Len(batch)
    /\ \E raw \in ScanFrames :
        LET sym == batch[si + 1]
            o   == Outcome(sym, raw, bench_close)
        IN  /\ df_batch' = Append(df_batch, raw)
            /\ IF o.kind = "result"
               THEN results' = Append(results, o.rec) /\ errors' = errors
               ELSE errors' = Append(errors, ErrorRecord(sym, o.error)) /\ results' = results
            /\ IF WebhookDue(o)
               THEN \E ok \in BOOLEAN : posts' = Append(posts, [ticker |-> sym, ok |-> ok])
               ELSE posts' = posts
    /\ si' = si + 1
    /\ dstatus' = "none"
    /\ dlog' = << >>
    /\ UNCHANGED <<pc, bi, tickers, webhook_url, bench_close, written, csv,
                   jsonl, failed, evars>>

\* The batch is done: main sleeps and takes the next batch, or leaves the loop.
EndBatch ==
    /\ pc = "tickers"
    /\ si = Len(batch)
    /\ NextBatch
    /\ UNCHANGED <<tickers, webhook_url, bench_close, dstatus, dlog, si,
                   df_batch, results, errors, written, csv, jsonl, posts,
                   failed, evars>>

\* ----------------------------------------------------------- main: output
\* Python's order of strings, on character codes.
StrLess(a, b) ==
    \E k \in 1..(Len(a) + 1) :
        /\ \A j \in 1..(k - 1) : j <= Len(b) /\ a[j] = b[j]
        /\ k <= Len(b)
        /\ (k > Len(a) \/ a[k] < b[k])

\* Mutant: both keys ascending.
SortsBeforeAscending(x, y) ==
    \/ ~x.signal /\ y.signal
    \/ x.signal = y.signal /\ StrLess(x.ticker, y.ticker)

\* The order of sort_values(by=["signal", "ticker"], ascending=[False, True]).
SortsBefore(x, y) ==
    \/ x.signal /\ ~y.signal
    \/ x.signal = y.signal /\ StrLess(x.ticker, y.ticker)

\* df_out.sort_values(...): the rows in that order, equal keys in input order.
SortValues(rows) ==
    LET n == Len(rows)
        rank(i) == 1 + Cardinality({j \in 1..n :
                        \/ SortsBefore(rows[j], rows[i])
                        \/ (~SortsBefore(rows[i], rows[j]) /\ j < i)})
    IN  [k \in 1..n |-> rows[CHOOSE i \in 1..n : rank(i) = k]]

\* A row of the CSV: the values of a record in column order.
CsvRow(r) == <<r.ticker, r.date, r.close, r.glb, r.rs_break, r.vol_ok, r.signal, r.notes>>

\* df_out.to_csv(OUTPUT_CSV, index=False)
ToCsv(df_out) == [k \in 1..Len(df_out) |-> CsvRow(df_out[k])]

\* Mutant: the lines are written from the sorted frame.
JsonLinesSorted(res, df_out) == df_out

\* for r in results: jf.write(json.dumps(r) + "\n")
JsonLines(res, df_out) == res

\* pd.DataFrame(results) has no column "signal" when results is empty, and
\* sort_values raises KeyError before any file is opened.
WriteOutput ==
    /\ pc = "output"
    /\ IF results = << >>
       THEN /\ pc' = "crashed"
            /\ UNCHANGED <<written, csv, jsonl>>
       ELSE LET df_out == SortValues(results)
            IN  /\ csv' = ToCsv(df_out)
                /\ jsonl' = JsonLines(results, df_out)
                /\ written' = {"csv", "jsonl"}
                /\ pc' = "done"
    /\ UNCHANGED <<tickers, webhook_url, bench_close, dstatus, dlog, bi, si,
                   df_batch, results, errors, posts, failed, evars>>

\* --------------------------------------------------------- specifications
EvalIdle ==
    /\ df_in = NoFrame
    /\ bench_in = [d \in Dates |-> NaN]
    /\ via = "none"
    /\ out = ResultOf(ShortCircuit(Sym, ""))

ScanIdle ==
    /\ pc = "idle"
    /\ tickers = << >>
    /\ webhook_url = FALSE
    /\ bench_close = [d \in Dates |-> NaN]
    /\ dstatus = "none"
    /\ dlog = << >>
    /\ bi = 0
    /\ si = 0
    /\ df_batch = << >>
    /\ results = << >>
    /\ errors = << >>
    /\ written = {}
    /\ csv = << >>
    /\ jsonl = << >>
    /\ posts = << >>
    /\ failed = {}

\* main after load_tickers, about to download the benchmark.
Init ==
    /\ pc = "bench_dl"
    /\ tickers \in TickerLists
    /\ webhook_url \in BOOLEAN
    /\ bench_close = [d \in Dates |-> NaN]
    /\ dstatus = "none"
    /\ dlog = << >>
    /\ bi = 0
    /\ si = 0
    /\ df_batch = << >>
    /\ results = << >>
    /\ errors = << >>
    /\ written = {}
    /\ csv = << >>
    /\ jsonl = << >>
    /\ posts = << >>
    /\ failed = {}
    /\ EvalIdle

Next ==
    \/ DownloadFail
    \/ BenchFetchOk
    \/ BenchFetchExhausted
    \/ BatchFetchOk
    \/ BatchFetchExhausted
    \/ ProcessTicker
    \/ EndBatch
    \/ WriteOutput

Spec == Init /\ [][Next]_vars

\* The evaluator on every frame and benchmark series of the bounded sets.
EvalInit ==
    /\ df_in \in EvalFrames
    /\ bench_in \in BenchChoices
    /\ via = "none"
    /\ out = ResultOf(ShortCircuit(Sym, ""))
    /\ ScanIdle

\* compute_for_ticker called on the frame as it is.
EvalDirect ==
    /\ via = "none"
    /\ via' = "compute_for_ticker"
    /\ out' = LET res == ComputeForTicker(Sym, df_in, bench_in)
              IN  IF res.raised THEN ErrorOf(Sym, res.error) ELSE ResultOf(res.rec)
    /\ UNCHANGED <<df_in, bench_in, scan_vars>>

\* The loop body of main called on the frame.
EvalMain ==
    /\ via = "none"
    /\ via' = "main"
    /\ out' = Outcome(Sym, df_in, bench_in)
    /\ UNCHANGED <<df_in, bench_in, scan_vars>>

EvalNext == EvalDirect \/ EvalMain

SpecEval == EvalInit /\ [][EvalNext]_vars

\* ----------------------------------------------------------------- claims
AllFailed(log) == \A k \in 1..Len(log) : log[k] = "F"

\* The call in progress has failed MAX_RETRIES times.
Exhausted == dstatus = "running" /\ Len(dlog) = MAX_RETRIES /\ AllFailed(dlog)

Count(seq, x) == Cardinality({k \in 1..Len(seq) : seq[k] = x})
TickersOf(seq) == [k \in 1..Len(seq) |-> seq[k].ticker]

Finished == pc \in {"output", "done", "crashed"}

C1_Step ==
    (pc = "batch_dl" /\ Exhausted) =>
        /\ Len(errors') = Len(errors) + Len(batch)
        /\ SubSeq(errors', 1, Len(errors)) = errors
        /\ \A k \in 1..Len(batch) : errors'[Len(errors) + k].ticker = batch[k]
        /\ results' = results
        /\ IF bi < Len(batches)
           THEN pc' = "batch_dl" /\ bi' = bi + 1
           ELSE pc' = "output"

C1_EveryBatchVisited ==
    /\ Finished => bi = Len(batches)
    /\ \A b \in failed : b <= bi /\ (b = bi => pc # "tickers")

\* C1: when a batch download fails on all MAX_RETRIES attempts, the next step
\* appends one ErrorRecord per ticker of that batch, in order, leaves results
\* and the earlier errors as they were and moves to the next batch (or to the
\* output after the last); the loop ends only after the last batch.
C1_BatchFailureScoped == [](C1_EveryBatchVisited) /\ [][C1_Step]_vars

\* A first batch failed and a later batch was fetched and gave a result.
C1_Witness ==
    /\ pc = "done"
    /\ 1 \in failed
    /\ Len(batches) = 2
    /\ 2 \notin failed
    /\ Len(errors) = Len(batches[1])
    /\ Len(results) = Len(batches[2])

C2_Step ==
    /\ (pc = "bench_dl" /\ Exhausted) => (pc' = "aborted" /\ results' = results /\ errors' = errors)
    /\ pc # "aborted"

C2_NothingDone ==
    pc = "aborted" =>
        /\ dstatus = "raised"
        /\ results = << >> /\ errors = << >>
        /\ bi = 0 /\ si = 0 /\ df_batch = << >>
        /\ written = {} /\ csv = << >> /\ jsonl = << >>
        /\ posts = << >> /\ failed = {}

\* C2: when the benchmark download fails on all attempts the run goes to the
\* aborted state, which is not the state of a completed run and which it
\* never leaves; in it no record was collected, no batch fetched, no ticker
\* evaluated and no file written.
C2_BenchmarkFailureAborts == [](C2_NothingDone) /\ [][C2_Step]_vars

C2_Witness == pc = "aborted" /\ Len(tickers) = MaxTickers /\ Len(dlog) = MAX_RETRIES

C3_Step ==
    /\ dstatus = "returned" => (dlog' = dlog \/ Len(dlog') <= 1)
    /\ Exhausted => (dstatus' = "raised" /\ dlog' = dlog)
    /\ (dstatus # "raised" /\ dstatus' = "raised") => Exhausted

C3_Log ==
    /\ Len(dlog) <= MAX_RETRIES
    /\ dlog # << >> => AllFailed(SubSeq(dlog, 1, Len(dlog) - 1))
    /\ dstatus = "returned" => dlog # << >> /\ dlog[Len(dlog)] = "S"
    /\ dstatus = "raised" => Len(dlog) = MAX_RETRIES /\ AllFailed(dlog)
    /\ dstatus = "running" => dlog # << >> /\ AllFailed(dlog)

\* C3: a download_hist call makes at most MAX_RETRIES attempts; only its last
\* attempt can be a success, after which it has returned and makes no further
\* attempt; it raises exactly when MAX_RETRIES attempts have failed, and then
\* it does raise.
C3_BoundedRetries == [](C3_Log) /\ [][C3_Step]_vars

\* A call that succeeded on its last permitted attempt.
C3_Witness == dstatus = "returned" /\ Len(dlog) = MAX_RETRIES /\ pc = "tickers"

\* C4 (as claimed): a run whose benchmark download succeeded ends with both
\* output files written.
C4_AlwaysWritesOutput == pc \in {"done", "crashed"} => written = {"csv", "jsonl"}

\* The frame compute_for_ticker is called with, and its rows that have a Close.
Given == IF via = "main" THEN CloseFallback(ExtractSym(df_in)) ELSE df_in
Cleaned == SelectSeq(Given.bars, LAMBDA b : b.Close # NaN)

\* The Highs of the BARS_GLB rows that end at the row before the last.
PriorHighs ==
    {Cleaned[t].High : t \in {u \in 1..(Len(Cleaned) - 1) : u >= Len(Cleaned) - BARS_GLB}} \ {NaN}

\* The last High equals the highest of them.
TieAtLast ==
    /\ PriorHighs # {}
    /\ Cleaned[Len(Cleaned)].High \in PriorHighs
    /\ \A h \in PriorHighs : h <= Cleaned[Len(Cleaned)].High

\* C5: for a series that passes the length gate, when the High of the last
\* row (of the rows that have a Close) equals the highest High of the BARS_GLB
\* rows before it, the record returned has glb = false.
C5_TieIsNoBreakout ==
    (via # "none" /\ Given.present /\ Len(Given.bars) >= MinLength /\ TieAtLast)
        => ~out.rec.glb

\* A tie after the window slid: the row that left the window and the last
\* row share the highest High, and the evaluation ran to its end.
C5_Witness ==
    /\ via = "compute_for_ticker"
    /\ Len(Cleaned) = BARS_GLB + 1
    /\ TieAtLast
    /\ Cleaned[1].High = 2
    /\ \A t \in 2..BARS_GLB : Cleaned[t].High = 1
    /\ Cleaned[Len(Cleaned)].High = 2
    /\ out.kind = "result" /\ out.rec.notes = "" /\ ~out.rec.glb

\* The rows main (or a direct caller) has for the ticker.
Series == IF via = "main" THEN ExtractSym(df_in) ELSE df_in
TooShort == via # "none" /\ Len0(Series) < MinLength

AllFalse(rec) == ~rec.glb /\ ~rec.rs_break /\ ~rec.vol_ok /\ ~rec.signal

\* C6 (as claimed): every ticker whose series is shorter than the minimum
\* gets a SignalRecord with notes = "insufficient_data" and all flags false.
C6_ShortIsInsufficient ==
    TooShort => out.kind = "result" /\ out.rec.notes = "insufficient_data" /\ AllFalse(out.rec)

\* C6 (amended): a series shorter than the minimum gives a SignalRecord with
\* all flags false; its notes are "insufficient_data", whatever its Close
\* values, columns and benchmark, except that main records a missing or
\* empty frame as "no_data".
C6_ShortIsInsufficientOrNoData ==
    TooShort =>
        /\ out.kind = "result"
        /\ AllFalse(out.rec)
        /\ out.rec.date = None /\ out.rec.close = None
        /\ out.rec.notes =
              IF via = "main" /\ Len0(Series) = 0 THEN "no_data" ELSE "insufficient_data"

\* A short series with no Close value and no benchmark value, through main.
C6_Witness ==
    /\ via = "main"
    /\ Len0(Series) = MinLength - 1
    /\ \A t \in 1..Len(Series.bars) : Series.bars[t].Close = NaN
    /\ AllNaN(bench_in)
    /\ out.rec.notes = "insufficient_data"

\* A frame with nothing to evaluate: missing, or without any row with a value.
MissingFrame(raw) == ~raw.present \/ \A t \in 1..Len(raw.bars) : RowAllNaN(raw.bars[t])

\* A frame with the Close column and enough rows, none with a Close value.
NoCloseValue(raw) ==
    /\ raw.present /\ "Close" \in raw.cols
    /\ Len(raw.bars) >= MinLength
    /\ ~MissingFrame(raw)
    /\ \A t \in 1..Len(raw.bars) : raw.bars[t].Close = NaN

\* The records the symbols handled so far in this batch should have given.
RECURSIVE ExpectedResults(_)
ExpectedResults(k) ==
    IF k = 0 THEN << >>
    ELSE LET o == Outcome(batch[k], df_batch[k], bench_close)
         IN  IF o.kind = "result" THEN Append(ExpectedResults(k - 1), o.rec)
             ELSE ExpectedResults(k - 1)

LastResults(n) == SubSeq(results, Len(results) - n + 1, Len(results))

RECURSIVE LexLeq(_, _)
LexLeq(a, b) ==
    IF a = << >> THEN TRUE
    ELSE IF b = << >> THEN FALSE
    ELSE IF a[1] # b[1] THEN a[1] < b[1]
    ELSE LexLeq(Tail(a), Tail(b))

\* C8: in the CSV every row with signal = true comes before every row with
\* signal = false, rows with the same signal are in ascending ticker order,
\* and the rows are the collected SignalRecords, each as often as collected.
C8_CsvSorted ==
    "csv" \in written =>
        /\ Len(csv) = Len(results)
        /\ \A k \in 1..Len(results) : Count(csv, CsvRow(results[k])) = Count(results, results[k])
        /\ \A i, j \in 1..Len(csv) :
            i < j =>
                /\ csv[j][7] => csv[i][7]
                /\ csv[i][7] = csv[j][7] => LexLeq(csv[i][1], csv[j][1])

\* Three records collected as: no signal, signal for "B", signal for "AB".
C8_Witness ==
    /\ pc = "done"
    /\ Len(results) = 3
    /\ ~results[1].signal
    /\ results[2].signal /\ results[2].ticker = <<2>>
    /\ results[3].signal /\ results[3].ticker = <<1, 2>>

RecordFields == {"ticker", "date", "close", "glb", "rs_break", "vol_ok", "signal", "notes"}

\* C9 (as claimed): the k-th JSONL line and the k-th CSV row are the same
\* record, for every k.
C9_SameOrderAsCsv ==
    "jsonl" \in written =>
        /\ Len(jsonl) = Len(csv)
        /\ \A k \in 1..Len(jsonl) : CsvRow(jsonl[k]) = csv[k]

\* C9 (amended): the JSONL has one object per SignalRecord, with the fields
\* of the CSV columns, in the order the records were collected; the CSV has
\* the same records, each as often, in sorted order.
C9_JsonlInCollectionOrder ==
    "jsonl" \in written =>
        /\ Len(jsonl) = Len(results) /\ Len(csv) = Len(results)
        /\ \A k \in 1..Len(jsonl) :
            /\ jsonl[k] = results[k]
            /\ DOMAIN jsonl[k] = RecordFields
            /\ Count(csv, CsvRow(jsonl[k])) = Count(jsonl, jsonl[k])

\* Files whose first line and first row are different records.
C9_Witness == pc = "done" /\ "jsonl" \in written /\ CsvRow(jsonl[1]) # csv[1]

\* C10: once the loop is over, results and errors together hold exactly one
\* record per entry of the ticker list: as many in total as tickers loaded,
\* and for each symbol as many as the list has entries of it.
C10_OneRecordPerTicker ==
    Finished =>
        /\ Len(results) + Len(errors) = Len(tickers)
        /\ \A s \in Symbols :
            Count(TickersOf(results), s) + Count(TickersOf(errors), s) = Count(tickers, s)

\* A finished run with a failed batch, a ticker whose evaluation raised, a
\* failed webhook post and a symbol listed twice.
C10_Witness ==
    /\ pc = "done"
    /\ failed # {}
    /\ \E k \in 1..Len(errors) : errors[k].error # "download failed"
    /\ \E k \in 1..Len(posts) : ~posts[k].ok
    /\ \E s \in Symbols : Count(tickers, s) >= 2

====
